---- MODULE Spec2Model ----
(***************************************************************************)
(* Model of Scripts/myscripts.js:                                          *)
(*   - ko.observableArray.fn.selectable (lines 75-247): an observable      *)
(*     array extended with a single or a multiple selection and, with      *)
(*     'bindingTools', the click handlers new / clone / delete;            *)
(*   - the demo view model BetterListModel (lines 22-41).                  *)
(*                                                                         *)
(* JavaScript values are tagged pairs, so that === is TLA+ equality:       *)
(* null, undefined, numbers (compared by value) and objects (compared by   *)
(* reference).  An object reference r denotes heap[r].  Arrays are         *)
(* sequences; JavaScript positions are 0-based, so position i of an array  *)
(* is element i+1 of the sequence.  A call with no argument is a call      *)
(* with the argument undefined.  The array has no create method            *)
(* (this.create is undefined) and its objects are plain objects: an object *)
(* built by ko.mapping is cloned through ko.mapping.toJS / fromJS, which   *)
(* at this level of detail is the same copy.                               *)
(***************************************************************************)
EXTENDS Integers, Sequences, FiniteSets, TLC

VARIABLES
    options,            \* the options object built from the arguments of selectable()
    arr,                \* the contents of the observable array ("this()")
    selected,           \* single mode: the observable 'selected'
    selectedItems,      \* multiple mode: the contents of the observableArray 'selectedItems'
    heap,               \* the contents of the objects ever created, by reference
    threw,              \* the last operation ended in a TypeError
    last,               \* the last operation and its arguments
    itemToAdd,          \* BetterListModel.itemToAdd
    allItems,           \* BetterListModel.allItems
    modelSelectedItems  \* BetterListModel.selectedItems

vars == <<options, arr, selected, selectedItems, heap, threw, last,
          itemToAdd, allItems, modelSelectedItems>>
selVars == <<options, arr, selected, selectedItems, heap, threw>>
demoVars == <<itemToAdd, allItems, modelSelectedItems>>

----------------------------------------------------------------------------
(* Bounds of the model. *)

\* longest array the observable array is constructed with
MaxInit == 2
\* longest array new / clone may build
MaxLen == 4
\* most objects new / clone create in one run
MaxNew == 2
\* longest list written to selectedItems / selectedIndexes / passed to removeAll
MaxWrite == 2

----------------------------------------------------------------------------
(* JavaScript values. *)

Null == <<"null", 0>>
Undefined == <<"undefined", 0>>
Num(n) == <<"number", n>>
Obj(r) == <<"object", r>>

IsObj(x) == x[1] = "object"

\* ToBoolean: null, undefined and 0 are falsy; objects and other numbers truthy.
Truthy(x) == x \notin {Null, Undefined, Num(0)}

\* The objects that exist before selectable() is called: one with a name
\* and one without (an absent name is modelled as "", which is as falsy).
InitHeap == << [name |-> "a"], [name |-> ""] >>

\* The values the array is constructed from.  null is the "no selection"
\* value of the single mode, so arrays holding null are drawn there; in
\* multiple mode null is one more primitive value.
InitItems(opts) ==
    {Undefined, Num(1), Obj(1), Obj(2)}
        \cup (IF "multiple" \in opts THEN {} ELSE {Null})

\* The values a caller can pass: primitives and every object there is.
Values(h) == {Null, Undefined, Num(1)} \cup {Obj(r) : r \in 1..Len(h)}

\* The elements of a sequence.
Range(s) == {s[i] : i \in 1..Len(s)}

\* The values of a list passed to selectedItems or removeAll: the elements
\* of the array, and null for a value that is not in the array (both skip
\* every such value alike; no array of a multiple-mode run holds null, and
\* removeAll of a null element is remove(null)).
Listed(a) == Range(a) \cup {Null}

\* Sequences over S of length at most n.
BSeq(S, n) == UNION {[1..k -> S] : k \in 0..n}

----------------------------------------------------------------------------
(* Array primitives of JavaScript and Knockout. *)

\* Array.prototype.indexOf / ko.observableArray.fn.indexOf: the first
\* position (0-based) holding a value === x, or -1.
IndexOf(s, x) ==
    IF \E i \in 1..Len(s) : s[i] = x
    THEN (CHOOSE i \in 1..Len(s) : s[i] = x /\ \A j \in 1..(i-1) : s[j] # x) - 1
    ELSE -1

\* this()[i]: the element at position i, undefined outside the array.
At(s, i) == IF i \in 0..(Len(s) - 1) THEN s[i + 1] ELSE Undefined

\* ko.observableArray.fn.remove(value): drops every element === value.
Remove(s, x) == SelectSeq(s, LAMBDA e : e # x)

\* ko.observableArray.fn.removeAll(values): drops every element found in values.
RemoveAll(s, vals) == SelectSeq(s, LAMBDA e : IndexOf(vals, e) < 0)

\* ko.utils.arrayMap(s, f) where f is indexOf on a.
RECURSIVE MapIndexOf(_, _)
MapIndexOf(a, s) ==
    IF s = <<>> THEN <<>> ELSE <<IndexOf(a, Head(s))>> \o MapIndexOf(a, Tail(s))

\* ko.utils.arrayMap(idxs, function (i) { return this()[i] }).
RECURSIVE MapAt(_, _)
MapAt(a, idxs) ==
    IF idxs = <<>> THEN <<>> ELSE <<At(a, Head(idxs))>> \o MapAt(a, Tail(idxs))

----------------------------------------------------------------------------
(* The selection: writes and reads (lines 83-145). *)

\* The loop of the selectedItems write: acc is the inner selectedItems array.
RECURSIVE WriteLoop(_, _, _)
WriteLoop(a, items, acc) ==
    IF items = <<>> THEN acc
    ELSE LET obj == Head(items)
         IN  WriteLoop(a, Tail(items),
                 IF IndexOf(acc, obj) = -1 /\ IndexOf(a, obj) >= 0
                 THEN Append(acc, obj) ELSE acc)

\* The write without the test that an item is selected once only.
SelectedItemsWriteNoDedupe(a, items) == SelectSeq(items, LAMBDA obj : IndexOf(a, obj) >= 0)

\* selectedItems(items) on the array a: the new contents of selectedItems.
SelectedItemsWrite(a, items) == WriteLoop(a, items, <<>>)

\* The write taking its indexes as 1-based.
SelectedIndexesWriteOneBased(a, indexes) ==
    SelectedItemsWrite(a, MapAt(a, [k \in 1..Len(indexes) |-> indexes[k] - 1]))

\* selectedIndexes(indexes) on the array a.
SelectedIndexesWrite(a, indexes) == SelectedItemsWrite(a, MapAt(a, indexes))

\* The write taking position 0 for "not found".
SelectedItemWriteSkipsFirst(a, object) == IF IndexOf(a, object) <= 0 THEN Null ELSE object

\* The write without the test of line 127: whatever is written is selected.
SelectedItemWriteSelectsAnything(a, object) == object

\* selectedItem(object) on the array a: the new value of selected.
SelectedItemWrite(a, object) == IF IndexOf(a, object) < 0 THEN Null ELSE object

\* selectedIndex(index) on the array a.
SelectedIndexWrite(a, index) == SelectedItemWrite(a, At(a, index))

\* The reads.
selectedItem == selected
selectedIndex == IndexOf(arr, selected)
selectedIndexes == MapIndexOf(arr, selectedItems)

Multiple == "multiple" \in options
Single == "multiple" \notin options
BindingTools == "bindingTools" \in options

NoArgs == [item |-> Undefined, items |-> <<>>, idxs |-> <<>>]
Op(name, args) == [op |-> name, item |-> args.item, items |-> args.items, idxs |-> args.idxs]

Init ==
    /\ options \in SUBSET {"multiple", "bindingTools"}
    /\ arr \in BSeq(InitItems(options), MaxInit)
    /\ selected = Null
    /\ selectedItems = <<>>
    /\ heap = InitHeap
    /\ threw = FALSE
    /\ last = Op("selectable", NoArgs)
    /\ itemToAdd = ""
    /\ allItems = <<"Fries", "Eggs Benedict", "Ham", "Cheese">>
    /\ modelSelectedItems = <<"Ham">>

WriteSelectedItem(object) ==
    /\ Single
    /\ selected' = SelectedItemWrite(arr, object)
    /\ threw' = FALSE
    /\ last' = Op("selectedItem", [NoArgs EXCEPT !.item = object])
    /\ UNCHANGED <<options, arr, selectedItems, heap, demoVars>>

WriteSelectedIndex(index) ==
    /\ Single
    /\ selected' = SelectedIndexWrite(arr, index)
    /\ threw' = FALSE
    /\ last' = Op("selectedIndex", [NoArgs EXCEPT !.idxs = <<index>>])
    /\ UNCHANGED <<options, arr, selectedItems, heap, demoVars>>

WriteSelectedItems(items) ==
    /\ Multiple
    /\ selectedItems' = SelectedItemsWrite(arr, items)
    /\ threw' = FALSE
    /\ last' = Op("selectedItems", [NoArgs EXCEPT !.items = items])
    /\ UNCHANGED <<options, arr, selected, heap, demoVars>>

WriteSelectedIndexes(indexes) ==
    /\ Multiple
    /\ selectedItems' = SelectedIndexesWrite(arr, indexes)
    /\ threw' = FALSE
    /\ last' = Op("selectedIndexes", [NoArgs EXCEPT !.idxs = indexes])
    /\ UNCHANGED <<options, arr, selected, heap, demoVars>>

----------------------------------------------------------------------------
(* The binding tools (lines 154-244). *)

\* ko.toJS / ko.mapping.toJS of an object followed by "data.name += ' copy'"
\* (lines 157-167): the plain data of the clone.  A name that is absent or
\* empty is modelled as "" (both are falsy).
CloneData(content) ==
    [name |-> IF content.name # "" THEN content.name \o " copy" ELSE content.name]

\* The helper pushing the object itself instead of a copy of it.
CloneOnePushesSource(h, a, object) ==
    IF object \in {Null, Undefined}
    THEN [threw |-> TRUE, created |-> Undefined, heap |-> h, arr |-> a]
    ELSE [threw |-> FALSE, created |-> object, heap |-> h, arr |-> Append(a, object)]

\* The inner helper clone(object) on heap h and array a (lines 156-179).
\* Reading object.__ko_mapping__ of null or undefined is a TypeError.  A
\* primitive is its own ko.toJS and is pushed as it is; an object yields a
\* new object holding the data.
CloneOne(h, a, object) ==
    IF object \in {Null, Undefined}
    THEN [threw |-> TRUE, created |-> Undefined, heap |-> h, arr |-> a]
    ELSE IF IsObj(object)
    THEN LET data == CloneData(h[object[2]])
             created == Obj(Len(h) + 1)
         IN  [threw |-> FALSE, created |-> created,
              heap |-> Append(h, data),
              arr |-> Append(a, created)]
    ELSE [threw |-> FALSE, created |-> object, heap |-> h, arr |-> Append(a, object)]

\* ko.utils.arrayMap(sources, clone): every source is cloned in turn; a
\* TypeError stops the loop, the clones pushed so far stay in the array.
RECURSIVE CloneMap(_, _, _, _)
CloneMap(h, a, sources, acc) ==
    IF sources = <<>>
    THEN [threw |-> FALSE, created |-> acc, heap |-> h, arr |-> a]
    ELSE LET r == CloneOne(h, a, Head(sources))
         IN  IF r.threw
             THEN [threw |-> TRUE, created |-> acc, heap |-> h, arr |-> a]
             ELSE CloneMap(r.heap, r.arr, Tail(sources), Append(acc, r.created))

\* Room for what an operation creates, within the bounds.
Room(a, h) == Len(a) <= MaxLen /\ Len(h) <= Len(InitHeap) + MaxNew

\* this.clone(object), lines 183-196.
Clone(object) ==
    /\ BindingTools
    /\ last' = Op("clone", [NoArgs EXCEPT !.item = object])
    /\ UNCHANGED <<options, demoVars>>
    /\ IF Single
       THEN LET r == CloneOne(heap, arr, IF Truthy(object) THEN object ELSE selected)
            IN  /\ Room(r.arr, r.heap)
                /\ threw' = r.threw
                /\ arr' = r.arr
                /\ heap' = r.heap
                /\ selected' = IF r.threw THEN selected
                               ELSE SelectedItemWrite(r.arr, r.created)
                /\ UNCHANGED selectedItems
       ELSE LET r == IF Truthy(object)
                     THEN LET c == CloneOne(heap, arr, object)
                          IN  [c EXCEPT !.created = <<c.created>>]
                     ELSE CloneMap(heap, arr, selectedItems, <<>>)
            IN  /\ Room(r.arr, r.heap)
                /\ threw' = r.threw
                /\ arr' = r.arr
                /\ heap' = r.heap
                /\ selectedItems' = IF r.threw THEN selectedItems
                                    ELSE SelectedItemsWrite(r.arr, r.created)
                /\ UNCHANGED selected

\* this.delete(object) in single mode, lines 202-206.
DeleteSingle(object) ==
    LET removed == Remove(arr, IF Truthy(object) THEN object ELSE selected)
    IN  /\ arr' = removed
        /\ selected' = IF selected = object
                       THEN SelectedItemWrite(removed, Null)
                       ELSE selected
        /\ threw' = FALSE
        /\ UNCHANGED selectedItems

\* this.delete(object) in multiple mode, lines 207-215.  this.selectedItems
\* is a ko.computed, which has no remove method: with an object passed in,
\* line 210 is a TypeError raised after line 209 has removed the object.
DeleteMultiple(object) ==
    IF Truthy(object)
    THEN /\ arr' = Remove(arr, object)
         /\ threw' = TRUE
         /\ UNCHANGED <<selected, selectedItems>>
    ELSE LET removed == RemoveAll(arr, selectedItems)
         IN  /\ arr' = removed
             /\ selectedItems' = SelectedItemsWrite(removed, <<>>)
             /\ threw' = FALSE
             /\ UNCHANGED selected

\* this.delete(object), lines 200-218.
Delete(object) ==
    /\ BindingTools
    /\ last' = Op("delete", [NoArgs EXCEPT !.item = object])
    /\ UNCHANGED <<options, heap, demoVars>>
    /\ IF Single THEN DeleteSingle(object) ELSE DeleteMultiple(object)

\* new() selecting the object before it is pushed.
NewSelectsBeforePush(ignored) ==
    /\ BindingTools
    /\ LET created == Obj(Len(heap) + 1)
           pushed == Append(arr, created)
           h == Append(heap, [name |-> ""])
       IN  /\ Room(pushed, h)
           /\ heap' = h
           /\ arr' = pushed
           /\ IF Single
              THEN selected' = SelectedItemWrite(arr, created) /\ UNCHANGED selectedItems
              ELSE selectedItems' = SelectedItemsWrite(arr, <<created>>) /\ UNCHANGED selected
    /\ threw' = FALSE
    /\ last' = Op("new", [NoArgs EXCEPT !.item = ignored])
    /\ UNCHANGED <<options, demoVars>>

\* this.new(), lines 224-242; whatever is passed in is ignored.
New(ignored) ==
    /\ BindingTools
    /\ LET created == Obj(Len(heap) + 1)
           pushed == Append(arr, created)
           h == Append(heap, [name |-> ""])
       IN  /\ Room(pushed, h)
           /\ heap' = h
           /\ arr' = pushed
           /\ IF Single
              THEN selected' = SelectedItemWrite(pushed, created) /\ UNCHANGED selectedItems
              ELSE selectedItems' = SelectedItemsWrite(pushed, <<created>>) /\ UNCHANGED selected
    /\ threw' = FALSE
    /\ last' = Op("new", [NoArgs EXCEPT !.item = ignored])
    /\ UNCHANGED <<options, demoVars>>

----------------------------------------------------------------------------
(* The observable array's own mutators, which the extension leaves as they *)
(* are: nothing in lines 75-247 subscribes to the array or overrides them. *)

\* Array.prototype.splice(start, deleteCount) with nothing inserted.
Splice(s, start, deleteCount) ==
    LET len == Len(s)
        from == IF start < 0
                THEN (IF len + start < 0 THEN 0 ELSE len + start)
                ELSE (IF start > len THEN len ELSE start)
        want == IF deleteCount < 0 THEN 0 ELSE deleteCount
        count == IF want > len - from THEN len - from ELSE want
    IN  SubSeq(s, 1, from) \o SubSeq(s, from + count + 1, len)

\* A mutator of the array: the selection is not touched.
Mutate(name, result) ==
    /\ arr' = result
    /\ threw' = FALSE
    /\ last' = Op(name, NoArgs)
    /\ UNCHANGED <<options, selected, selectedItems, heap, demoVars>>

ArrayRemove(object) ==
    Mutate("remove", Remove(arr, object))

ArrayRemoveAll(items) ==
    Mutate("removeAll", RemoveAll(arr, items))

ArrayPop ==
    Mutate("pop", SubSeq(arr, 1, Len(arr) - 1))

ArraySplice(start, deleteCount) ==
    Mutate("splice", Splice(arr, start, deleteCount))

----------------------------------------------------------------------------
(* The demo view model BetterListModel (lines 22-41). *)

\* The texts typed into the box bound to itemToAdd.
Texts == {"", "Ham", "Bacon", "Toast"}

\* Array.prototype.sort() orders strings by their UTF-16 code units; for the
\* strings of this model that is their place in this list.
CodeUnitOrder == <<"Bacon", "Cheese", "Eggs Benedict", "Fries", "Ham", "Toast">>

Before(s, t) == IndexOf(CodeUnitOrder, s) < IndexOf(CodeUnitOrder, t)

RECURSIVE Insert(_, _)
Insert(sorted, t) ==
    IF sorted = <<>> THEN <<t>>
    ELSE IF Before(t, Head(sorted)) THEN <<t>> \o sorted
    ELSE <<Head(sorted)>> \o Insert(Tail(sorted), t)

\* allItems.sort()
RECURSIVE Sort(_)
Sort(s) == IF s = <<>> THEN <<>> ELSE Insert(Sort(Tail(s)), Head(s))

Demo(name) ==
    /\ last' = Op(name, NoArgs)
    /\ UNCHANGED selVars

\* The text box writes itemToAdd.
EditItemToAdd(text) ==
    /\ itemToAdd' = text
    /\ UNCHANGED <<allItems, modelSelectedItems>>
    /\ Demo("itemToAdd")

\* The list box writes selectedItems: the chosen options, in list order.
SelectOptions(chosen) ==
    /\ modelSelectedItems' = SelectSeq(allItems, LAMBDA t : t \in chosen)
    /\ UNCHANGED <<itemToAdd, allItems>>
    /\ Demo("select")

\* addItem, lines 27-31.
AddItem ==
    /\ allItems' = IF itemToAdd # "" /\ IndexOf(allItems, itemToAdd) < 0
                   THEN Append(allItems, itemToAdd)
                   ELSE allItems
    /\ itemToAdd' = ""
    /\ UNCHANGED modelSelectedItems
    /\ Demo("addItem")

\* removeSelected without line 35.
RemoveSelectedKeepsSelection ==
    /\ allItems' = RemoveAll(allItems, modelSelectedItems)
    /\ UNCHANGED <<itemToAdd, modelSelectedItems>>
    /\ Demo("removeSelected")

\* removeSelected taking only the first selected value out of allItems.
RemoveSelectedFirstOnly ==
    /\ allItems' = IF modelSelectedItems = <<>> THEN allItems
                   ELSE Remove(allItems, Head(modelSelectedItems))
    /\ modelSelectedItems' = <<>>
    /\ UNCHANGED itemToAdd
    /\ Demo("removeSelected")

\* removeSelected, lines 33-36.
RemoveSelected ==
    /\ allItems' = RemoveAll(allItems, modelSelectedItems)
    /\ modelSelectedItems' = <<>>
    /\ UNCHANGED itemToAdd
    /\ Demo("removeSelected")

\* sortItems, lines 38-40.
SortItems ==
    /\ allItems' = Sort(allItems)
    /\ UNCHANGED <<itemToAdd, modelSelectedItems>>
    /\ Demo("sortItems")

----------------------------------------------------------------------------
(* Specifications. *)

\* The extension's own operations on a selectable array, in either mode.
Next ==
    \/ \E object \in Values(heap) : WriteSelectedItem(object)
    \/ \E index \in -1..Len(arr) : WriteSelectedIndex(index)
    \/ \E items \in BSeq(Listed(arr), MaxWrite) : WriteSelectedItems(items)
    \/ \E indexes \in BSeq(-1..Len(arr), MaxWrite) : WriteSelectedIndexes(indexes)
    \/ \E ignored \in {Undefined, Obj(1)} : New(ignored)
    \/ \E object \in Values(heap) : Clone(object)
    \/ \E object \in Values(heap) : Delete(object)

Spec == Init /\ [][Next]_vars

\* A selectable array whose selection is written through its attributes and
\* whose contents are changed through the observable array's own mutators.
NextArray ==
    \/ \E object \in Values(heap) : WriteSelectedItem(object)
    \/ \E index \in -1..Len(arr) : WriteSelectedIndex(index)
    \/ \E items \in BSeq(Listed(arr), MaxWrite) : WriteSelectedItems(items)
    \/ \E indexes \in BSeq(-1..Len(arr), MaxWrite) : WriteSelectedIndexes(indexes)
    \/ \E object \in Values(heap) : ArrayRemove(object)
    \/ \E items \in BSeq(Listed(arr), MaxWrite) : ArrayRemoveAll(items)
    \/ ArrayPop
    \/ \E start \in -1..Len(arr), deleteCount \in 0..Len(arr) : ArraySplice(start, deleteCount)

\* The binding tools are not part of this array.
InitArray == Init /\ ~BindingTools

SpecArray == InitArray /\ [][NextArray]_vars

\* The demo view model.
NextDemo ==
    \/ \E text \in Texts : EditItemToAdd(text)
    \/ \E chosen \in SUBSET Range(allItems) : SelectOptions(chosen)
    \/ AddItem
    \/ RemoveSelected
    \/ SortItems

InitDemo == Init /\ options = {} /\ arr = <<>>

SpecDemo == InitDemo /\ [][NextDemo]_vars

----------------------------------------------------------------------------
(* Properties. *)

\* No value occurs twice in s.
NoRepeats(s) == \A i, j \in 1..Len(s) : i # j => s[i] # s[j]

\* r lists, once each, the values of items that are elements of a, in the
\* order of their first occurrence in items.
DistinctMembersInOrder(r, items, a) ==
    /\ NoRepeats(r)
    /\ Range(r) = Range(items) \cap Range(a)
    /\ \A p, q \in 1..Len(r) :
           p < q => \E i \in 1..Len(items) :
                        items[i] = r[p] /\ \A j \in 1..i : items[j] # r[q]

\* p is the first position (0-based) of x in a, or -1 when a does not hold x.
FirstPosition(p, a, x) ==
    IF p = -1
    THEN \A j \in 1..Len(a) : a[j] # x
    ELSE p >= 0 /\ p < Len(a) /\ a[p + 1] = x /\ \A j \in 1..p : a[j] # x

\* C1: in every state reached through the extension's own operations the
\* selection is within the array: in single mode selectedItem() is null or
\* an element of the array, in multiple mode every element of
\* selectedItems() is an element of the array.
C1_SelectionWithinArray ==
    /\ Single => (selectedItem = Null \/ selectedItem \in Range(arr))
    /\ Multiple => Range(selectedItems) \subseteq Range(arr)

\* C2: when remove / removeAll / pop / splice of the observable array takes
\* a selected item out of the array, the item is no longer selected
\* afterwards (single mode: it is not selectedItem(); multiple mode: it is
\* not in selectedItems()).
C2_RemovalDeselects ==
    [][ last'.op \in {"remove", "removeAll", "pop", "splice"} =>
          \A x \in Range(arr) \ Range(arr') :
              /\ (Single /\ x # Null /\ selectedItem = x) => selectedItem' # x
              /\ (Multiple /\ x \in Range(selectedItems)) => x \notin Range(selectedItems')
      ]_vars

\* C3: in single mode, delete(x) with x the selected item, and delete() with
\* no argument while an item x is selected, leave x out of the array,
\* selectedItem() null and selectedIndex() -1.  (Stated for an x that is in
\* the array, and for arrays that do not hold null, where selectedIndex()
\* of an empty selection is -1.)
C3_DeleteDeselects ==
    [][ ( /\ Single
          /\ last'.op = "delete"
          /\ selectedItem # Null
          /\ selectedItem \in Range(arr)
          /\ Null \notin Range(arr)
          /\ last'.item \in {selectedItem, Undefined} )
        => ( /\ selectedItem \notin Range(arr')
             /\ selectedItem' = Null
             /\ selectedIndex' = -1 )
      ]_vars

\* C4: in multiple mode delete(x) with an item x of the array passed in
\* completes normally, takes x out of the array and out of selectedItems(),
\* and keeps every other element of both, in order.
C4_DeleteItemMultiple ==
    [][ ( /\ Multiple
          /\ last'.op = "delete"
          /\ Truthy(last'.item)
          /\ last'.item \in Range(arr) )
        => ( /\ ~threw'
             /\ arr' = Remove(arr, last'.item)
             /\ selectedItems' = Remove(selectedItems, last'.item) )
      ]_vars

\* C5: new(), whatever it is passed, appends exactly one fresh empty object
\* to the array, leaves the elements that were there in place, and makes the
\* new object the whole selection (single mode: selectedItem(); multiple
\* mode: selectedItems() is the one-element list of it).
C5_NewAppendsAndSelects ==
    [][ last'.op = "new" =>
          LET created == arr'[Len(arr')]
          IN  /\ ~threw'
              /\ Len(arr') = Len(arr) + 1
              /\ SubSeq(arr', 1, Len(arr)) = arr
              /\ IsObj(created)
              /\ created \notin Values(heap)
              /\ created \notin Range(arr)
              /\ heap'[created[2]] = [name |-> ""]
              /\ SubSeq(heap', 1, Len(heap)) = heap
              /\ Single => selectedItem' = created
              /\ Multiple => selectedItems' = <<created>>
      ]_vars

\* C5's case: new(x) has run in multiple mode on an array of two elements.
C5_Witness ==
    /\ last.op = "new"
    /\ last.item # Undefined
    /\ Multiple
    /\ Len(arr) = 3
    /\ selectedItems = <<arr[3]>>

\* What clone(object) clones: the object passed in, otherwise the selection.
CloneSources(object) ==
    IF Truthy(object) THEN <<object>>
    ELSE IF Single THEN <<selectedItem>> ELSE selectedItems

\* C6: clone of a non-empty sequence S of objects (the argument, otherwise
\* the selection) appends to the array one new object per element of S, in
\* order, each a copy of its source (with ' copy' added to a name it has),
\* leaves the array's old elements and every existing object as they were,
\* and selects exactly the new objects (single mode: the clone; multiple
\* mode: the clones in the order of S).
C6_CloneSelectsClones ==
    [][ ( /\ last'.op = "clone"
          /\ CloneSources(last'.item) # <<>>
          /\ \A k \in 1..Len(CloneSources(last'.item)) :
                 IsObj(CloneSources(last'.item)[k]) )
        => LET S == CloneSources(last'.item)
               n == Len(arr)
               clones == SubSeq(arr', n + 1, Len(arr'))
           IN  /\ ~threw'
               /\ Len(arr') = n + Len(S)
               /\ SubSeq(arr', 1, n) = arr
               /\ SubSeq(heap', 1, Len(heap)) = heap
               /\ NoRepeats(clones)
               /\ \A k \in 1..Len(S) :
                      /\ IsObj(clones[k])
                      /\ clones[k] \notin Values(heap)
                      /\ LET from == heap[S[k][2]].name
                             to == heap'[clones[k][2]].name
                         IN  IF from = "" THEN to = "" ELSE to = from \o " copy"
               /\ Single => selectedItem' = clones[1]
               /\ Multiple => selectedItems' = clones
      ]_vars

\* C6's case: clone() has cloned a selection of two objects, one of them named.
C6_Witness ==
    /\ last.op = "clone"
    /\ last.item = Undefined
    /\ Multiple
    /\ ~threw
    /\ Len(arr) = 4
    /\ selectedItems = SubSeq(arr, 3, 4)
    /\ IsObj(arr[3]) /\ IsObj(arr[4])
    /\ heap[arr[3][2]].name = "a copy"
    /\ heap[arr[4][2]].name = ""

\* C7 as claimed: after selectedIndex(i) with i a position of the array,
\* selectedItem() is the element at i and selectedIndex() is i; with i
\* outside the array selectedItem() is null and selectedIndex() is -1.
\* (Stated for arrays that hold neither null nor undefined.)
C7_IndexRoundTrip ==
    [][ (Single /\ last'.op = "selectedIndex" /\ Range(arr) \cap {Null, Undefined} = {}) =>
          LET i == last'.idxs[1]
          IN  IF i \in 0..(Len(arr) - 1)
              THEN selectedItem' = arr[i + 1] /\ selectedIndex' = i
              ELSE selectedItem' = Null /\ selectedIndex' = -1
      ]_vars

\* C7 as amended: after selectedIndex(i) with i a position of the array,
\* selectedItem() is the element at i and selectedIndex() is the first
\* position holding that element (i itself when it does not occur before
\* i); with i outside the array the write is selectedItem(undefined):
\* selectedItem() is undefined when the array holds undefined and null
\* otherwise, and selectedIndex() is the first position of that value in
\* the array, or -1 when the array does not hold it.
C7_IndexSelectsFirstOccurrence ==
    [][ (Single /\ last'.op = "selectedIndex") =>
          LET i == last'.idxs[1]
          IN  /\ IF i \in 0..(Len(arr) - 1)
                 THEN /\ selectedItem' = arr[i + 1]
                      /\ selectedIndex' <= i
                      /\ (\A j \in 1..i : arr[j] # arr[i + 1]) => selectedIndex' = i
                 ELSE selectedItem' =
                          (IF Undefined \in Range(arr) THEN Undefined ELSE Null)
              /\ FirstPosition(selectedIndex', arr, selectedItem')
      ]_vars

\* C7's case: selectedIndex(1) on an array holding the same value at
\* positions 0 and 1 selects it, and selectedIndex() reads 0.
C7_Witness ==
    /\ Single
    /\ last.op = "selectedIndex"
    /\ last.idxs = <<1>>
    /\ Len(arr) >= 2
    /\ arr[1] = arr[2]
    /\ selectedItem = arr[2]
    /\ selectedIndex = 0

\* C8: in the demo, every selected item is one of allItems.
C8_SelectedWithinAllItems ==
    Range(modelSelectedItems) \subseteq Range(allItems)

\* C8's case: Ham has been removed, Bacon added, and the user has selected
\* two of the items now listed.
C8_Witness ==
    /\ "Ham" \notin Range(allItems)
    /\ "Bacon" \in Range(allItems)
    /\ Len(modelSelectedItems) = 2
    /\ last.op = "select"

\* C9: after selectedItems(items), selectedItems() lists once each the
\* values of items that are elements of the array, in the order of their
\* first occurrence in items, whatever was selected before; and
\* selectedItems() never holds a value twice.
C9_WriteSelectsDistinctMembers ==
    [][ /\ NoRepeats(selectedItems')
        /\ (Multiple /\ last'.op = "selectedItems") =>
               DistinctMembersInOrder(selectedItems', last'.items, arr)
      ]_vars

\* C9's case: a list naming the same element twice has been written, and
\* the element is selected once.
C9_Witness ==
    /\ Multiple
    /\ last.op = "selectedItems"
    /\ Len(last.items) = 2
    /\ last.items[1] = last.items[2]
    /\ selectedItems = <<last.items[1]>>

\* The distinct positions of a among idxs, in the order written.
RECURSIVE DistinctInRange(_, _, _)
DistinctInRange(a, idxs, seen) ==
    IF idxs = <<>> THEN seen
    ELSE DistinctInRange(a, Tail(idxs),
             IF Head(idxs) \in 0..(Len(a) - 1) /\ Head(idxs) \notin Range(seen)
             THEN Append(seen, Head(idxs)) ELSE seen)

\* C10 as claimed: after selectedIndexes(idxs), selectedItems() lists the
\* elements at the distinct in-range indexes of idxs and selectedIndexes()
\* reads those indexes, in the order written; and in every state
\* selectedIndexes() is as long as selectedItems() and its k-th entry is a
\* position holding the k-th selected item.  (The write is stated for arrays
\* that do not hold undefined.)
C10_IndexesRoundTrip ==
    [][ /\ (Multiple /\ last'.op = "selectedIndexes" /\ Undefined \notin Range(arr)) =>
               LET d == DistinctInRange(arr, last'.idxs, <<>>)
               IN  /\ selectedItems' = [k \in 1..Len(d) |-> arr[d[k] + 1]]
                   /\ selectedIndexes' = d
        /\ Len(selectedIndexes') = Len(selectedItems')
        /\ \A k \in 1..Len(selectedItems') :
               /\ selectedIndexes'[k] \in 0..(Len(arr') - 1)
               /\ arr'[selectedIndexes'[k] + 1] = selectedItems'[k]
      ]_vars

\* The values selectedIndexes(idxs) names: the element at each index, and
\* undefined for an index outside the array.
Named(a, idxs) ==
    [k \in 1..Len(idxs) |->
        IF idxs[k] \in 0..(Len(a) - 1) THEN a[idxs[k] + 1] ELSE Undefined]

\* C10 as amended: after selectedIndexes(idxs), selectedItems() lists once
\* each the distinct values found at the indexes of idxs, in the order of
\* their first appearance, an index outside the array standing for
\* undefined, which is selected only when the array holds undefined; and in
\* every state selectedIndexes() is as long as selectedItems() and its k-th
\* entry is the first position of the k-th selected item in the array, or
\* -1 when the array does not hold that item.
C10_IndexesSelectDistinctValues ==
    /\ [][ (Multiple /\ last'.op = "selectedIndexes") =>
               DistinctMembersInOrder(selectedItems', Named(arr, last'.idxs), arr)
         ]_vars
    /\ [](LET indexes == selectedIndexes
           IN  /\ Len(indexes) = Len(selectedItems)
               /\ \A k \in 1..Len(selectedItems) :
                      FirstPosition(indexes[k], arr, selectedItems[k]))

\* C10's case: selectedIndexes([1, 0]) on an array holding the same value at
\* positions 0 and 1 selects it once, and selectedIndexes() reads [0].
C10_Witness ==
    /\ Multiple
    /\ last.op = "selectedIndexes"
    /\ last.idxs = <<1, 0>>
    /\ Len(arr) >= 2
    /\ arr[1] = arr[2]
    /\ selectedItems = <<arr[1]>>
    /\ selectedIndexes = <<0>>

\* C11: in single mode, after selectedItem(x), selectedItem() is x when x is
\* an element of the array and null otherwise, whatever was selected before
\* (also an item that has since left the array); so after the write
\* selectedItem() is null or an element of the array.  The array is not
\* changed by the write.
C11_WriteSelectsMemberOrNull ==
    [][ (Single /\ last'.op = "selectedItem") =>
          LET x == last'.item
          IN  /\ (\E j \in 1..Len(arr) : arr[j] = x) => selectedItem' = x
              /\ (\A j \in 1..Len(arr) : arr[j] # x) => selectedItem' = Null
              /\ selectedItem' = Null \/ selectedItem' \in Range(arr')
              /\ arr' = arr
      ]_vars

\* C11's case: selectedItem(o) with an object o that is not in a non-empty
\* array has left the selection null.
C11_Witness ==
    /\ Single
    /\ last.op = "selectedItem"
    /\ IsObj(last.item)
    /\ arr # <<>>
    /\ last.item \notin Range(arr)
    /\ selectedItem = Null

\* C12: in the demo, removeSelected leaves in allItems the values that were
\* not in selectedItems, in their original relative order, and nothing else,
\* and leaves selectedItems empty; a removeSelected that follows a
\* removeSelected immediately changes neither allItems nor selectedItems.
C12_RemoveSelectedExact ==
    [][ last'.op = "removeSelected" =>
          /\ allItems' = SelectSeq(allItems,
                             LAMBDA t : t \notin Range(modelSelectedItems))
          /\ Range(allItems') = Range(allItems) \ Range(modelSelectedItems)
          /\ modelSelectedItems' = <<>>
          /\ last.op = "removeSelected" =>
                 (allItems' = allItems /\ modelSelectedItems' = modelSelectedItems)
      ]_vars

\* C12's case: removeSelected has taken selected items out of the initial
\* list, leaving Fries and Cheese in their order and nothing selected.
C12_Witness ==
    /\ last.op = "removeSelected"
    /\ allItems = <<"Fries", "Cheese">>
    /\ modelSelectedItems = <<>>
====
